---- MODULE Spec2Model ----
(***************************************************************************)
(* Dock-door allocation core of the docking agent: free-window             *)
(* computation and greedy allocation (heuristic.py), the batch optimizer   *)
(* (solver.py), the validator and scorer (validate.py) and the commit      *)
(* protocol (agent.py).                                                    *)
(*                                                                         *)
(* Time is counted in whole minutes relative to an arbitrary origin; a     *)
(* datetime of the source is an integer here and a timedelta(minutes=n)    *)
(* is n.  One location is modelled.  An optional value (Python None) is a  *)
(* sequence of length 0 or 1.                                              *)
(***************************************************************************)
EXTENDS Integers, Sequences, FiniteSets, TLC

VARIABLES
    now,               \* datetime.utcnow() truncated to the minute
    dock_doors,        \* table dock_doors: door_id -> is_active (0 or 1)
    dock_resources,    \* table dock_resources: set of calendar slots
    dock_assignments,  \* table dock_assignments: rows in rowid order
    dock_events,       \* table dock_events: rows in rowid order
    proposals,         \* Proposals returned by propose_* and held by callers
    decision,          \* the Decision returned by the last commit operation
    call,              \* the invocation of a pure function under study
    pc                 \* position of each concurrent committer

vars == <<now, dock_doors, dock_resources, dock_assignments, dock_events,
          proposals, decision, call, pc>>

----------------------------------------------------------------------------
(* Bounds of the model *)

\* horizon_min / time_horizon_min (240 in the source), scaled down
HorizonMin == 20
\* number of rows of dock_doors
NumDoors == 2
\* largest priority of a request
MaxPriority == 1
\* largest number of rows the assignments table is drawn with or grows to
MaxRows == 2

\* largest number of proposals callers hold at a time
MaxHeld == 2
\* length of a slot of the resource calendar (15 in simulate.py), scaled down
ResSlotMin == 5

\* slot length of the batch optimizer, in minutes
slot == 5

----------------------------------------------------------------------------
(* Values *)

Max(a, b) == IF a >= b THEN a ELSE b
Min(a, b) == IF a <= b THEN a ELSE b

None == << >>
Some(v) == << v >>

\* door ids in the order SELECT door_id FROM dock_doors returns them
DoorIds == [d \in 1..NumDoors |-> d]
DoorSet == 1..NumDoors

----------------------------------------------------------------------------
(* heuristic.py *)

\* the door query without the condition on is_active
ActiveDoors_All(doors) == DoorIds

\* SELECT door_id FROM dock_doors WHERE location=? AND is_active=1
ActiveDoors(doors) ==
    LET Pick[i \in 0..NumDoors] ==
            IF i = 0 THEN << >>
            ELSE Pick[i-1] \o (IF doors[DoorIds[i]] = 1 THEN << DoorIds[i] >> ELSE << >>)
    IN Pick[NumDoors]

RECURSIVE SubtractFromWindows_DropTail(_, _, _)
SubtractFromWindows_DropTail(ws_list, s, e) ==
    IF ws_list = << >> THEN << >>
    ELSE LET w == Head(ws_list)
             kept == IF e <= w[1] \/ s >= w[2]
                     THEN << w >>
                     ELSE (IF w[1] < s THEN << <<w[1], s>> >> ELSE << >>)
         IN kept \o SubtractFromWindows_DropTail(Tail(ws_list), s, e)

\* the subtraction with the fragments kept whatever their length
RECURSIVE SubtractFromWindows_KeepEmpty(_, _, _)
SubtractFromWindows_KeepEmpty(ws_list, s, e) ==
    IF ws_list = << >> THEN << >>
    ELSE LET w == Head(ws_list)
             kept == IF e <= w[1] \/ s >= w[2]
                     THEN << w >>
                     ELSE << <<w[1], s>>, <<e, w[2]>> >>
         IN kept \o SubtractFromWindows_KeepEmpty(Tail(ws_list), s, e)

\* the inner loop of load_free_windows: one assignment [s, e) subtracted from
\* the list of windows of its door
RECURSIVE SubtractFromWindows(_, _, _)
SubtractFromWindows(ws_list, s, e) ==
    IF ws_list = << >> THEN << >>
    ELSE LET w == Head(ws_list)
             ws == w[1]
             we == w[2]
             kept == IF e <= ws \/ s >= we
                     THEN << w >>
                     ELSE (IF ws < s THEN << <<ws, s>> >> ELSE << >>)
                          \o (IF e < we THEN << <<e, we>> >> ELSE << >>)
         IN kept \o SubtractFromWindows(Tail(ws_list), s, e)

\* load_free_windows: the dict door -> windows is a sequence of
\* [door, slots] entries in insertion order.  An assignment on a door that
\* has no entry (an inactive door) adds an entry with no window at the end.
RECURSIVE ApplyRows(_, _)
ApplyRows(windows, rows) ==
    IF rows = << >> THEN windows
    ELSE LET r == Head(rows)
             known == \E i \in 1..Len(windows) : windows[i].door = r.door_id
             next == IF known
                     THEN [i \in 1..Len(windows) |->
                             IF windows[i].door = r.door_id
                             THEN [door |-> r.door_id,
                                   slots |-> SubtractFromWindows(windows[i].slots,
                                                                 r.start_utc, r.end_utc)]
                             ELSE windows[i]]
                     ELSE Append(windows, [door |-> r.door_id, slots |-> << >>])
         IN ApplyRows(next, Tail(rows))

\* SELECT door_id, start_utc, end_utc FROM dock_assignments
\*   WHERE location=? AND end_utc>=?      (no condition on status)
RECURSIVE RowsEndingFrom(_, _)
RowsEndingFrom(table, t_now) ==
    IF table = << >> THEN << >>
    ELSE (IF Head(table).end_utc >= t_now THEN << Head(table) >> ELSE << >>)
            \o RowsEndingFrom(Tail(table), t_now)

load_free_windows(doors, assignments, t_now, horizon_min) ==
    LET act == ActiveDoors(doors)
        windows == [i \in 1..Len(act) |->
                      [door |-> act[i], slots |-> << <<t_now, t_now + horizon_min>> >>]]
    IN ApplyRows(windows, RowsEndingFrom(assignments, t_now))

Candidate_NoWaitLimit(door, w, req) ==
    LET start == Max(w[1], req.earliest)
        end == start + req.duration_min
        lateness == IF req.deadline # None THEN Max(0, end - req.deadline[1]) ELSE 0
        wait == Max(0, start - req.earliest)
        local_cost == wait + 2 * lateness - 5 * req.priority
    IN IF end > w[2] THEN None
       ELSE Some([door_id |-> door, start |-> start, end |-> end,
                  lateness |-> lateness, local_cost |-> local_cost])

\* the candidate greedy_assign builds for one window, if it builds one
Candidate(door, w, req) ==
    LET start == Max(w[1], req.earliest)
        end == start + req.duration_min
        lateness == IF req.deadline # None THEN Max(0, end - req.deadline[1]) ELSE 0
        wait == Max(0, start - req.earliest)
        local_cost == wait + 2 * lateness - 5 * req.priority
    IN IF end > w[2] THEN None
       ELSE IF wait > req.max_wait_min THEN None
       ELSE Some([door_id |-> door, start |-> start, end |-> end,
                  lateness |-> lateness, local_cost |-> local_cost])

Better_OrEqual(cand, best) == best = None \/ cand.local_cost <= best[1].local_cost

\* the comparison that replaces best by a new candidate
Better(cand, best) == best = None \/ cand.local_cost < best[1].local_cost

RECURSIVE ScanSlots(_, _, _, _)
ScanSlots(door, slots, req, best) ==
    IF slots = << >> THEN best
    ELSE LET c == Candidate(door, Head(slots), req)
             b == IF c # None /\ Better(c[1], best) THEN c ELSE best
         IN ScanSlots(door, Tail(slots), req, b)

RECURSIVE ScanDoors(_, _, _)
ScanDoors(free, req, best) ==
    IF free = << >> THEN best
    ELSE ScanDoors(Tail(free), req,
                   ScanSlots(Head(free).door, Head(free).slots, req, best))

greedy_assign(doors, assignments, t_now, req) ==
    ScanDoors(load_free_windows(doors, assignments, t_now, HorizonMin), req, None)

----------------------------------------------------------------------------
(* validate.py *)

overlaps(a_start, a_end, b_start, b_end) ==
    ~(a_end <= b_start \/ b_end <= a_start)

\* the WHERE clause of the overlap query of hard_checks, for one row
\*   door_id=? AND status IN ('scheduled','in_progress')
\*   AND NOT( end_utc<=? OR start_utc>=? )
ConflictRow_InProgressOnly(r, p) ==
    /\ r.door_id = p.door_id
    /\ r.status \in {"in_progress"}
    /\ ~(r.end_utc <= p.start_utc \/ r.start_utc >= p.end_utc)

\* the overlap query with the interval ends included
ConflictRow_Closed(r, p) ==
    /\ r.door_id = p.door_id
    /\ r.status \in {"scheduled", "in_progress"}
    /\ ~(r.end_utc < p.start_utc \/ r.start_utc > p.end_utc)

ConflictRow(r, p) ==
    /\ r.door_id = p.door_id
    /\ r.status \in {"scheduled", "in_progress"}
    /\ ~(r.end_utc <= p.start_utc \/ r.start_utc >= p.end_utc)

\* the rows of dock_resources the resource query of hard_checks aggregates:
\*   slot_start_utc>=? AND slot_end_utc<=?
SlotsWithin(resources, p) ==
    {c \in resources : c.slot_start_utc >= p.start_utc /\ c.slot_end_utc <= p.end_utc}

\* hard_checks with the overlap query run before the door lookup
hard_checks_OverlapFirst(doors, assignments, resources, p) ==
    LET cal == SlotsWithin(resources, p)
    IN IF \E i \in 1..Len(assignments) : ConflictRow(assignments[i], p)
       THEN <<FALSE, "double_booking">>
       ELSE IF p.door_id \notin DOMAIN doors \/ doors[p.door_id] # 1
       THEN <<FALSE, "inactive_or_missing_door">>
       ELSE IF cal = {}
       THEN <<FALSE, "no_resource_calendar">>
       ELSE IF (\E c \in cal : c.crews < 1) \/ (\E c \in cal : c.forklifts < 1)
       THEN <<FALSE, "insufficient_resources">>
       ELSE <<TRUE, "ok">>

\* hard_checks returns (ok, why)
hard_checks(doors, assignments, resources, p) ==
    LET cal == SlotsWithin(resources, p)
    IN IF p.door_id \notin DOMAIN doors \/ doors[p.door_id] # 1
       THEN <<FALSE, "inactive_or_missing_door">>
       ELSE IF \E i \in 1..Len(assignments) : ConflictRow(assignments[i], p)
       THEN <<FALSE, "double_booking">>
       ELSE IF cal = {}
       THEN <<FALSE, "no_resource_calendar">>
       ELSE IF (\E c \in cal : c.crews < 1) \/ (\E c \in cal : c.forklifts < 1)
       THEN <<FALSE, "insufficient_resources">>
       ELSE <<TRUE, "ok">>

\* score_confidence without the clamp to [0, 1]
score_confidence_Unclamped(hard_ok, lateness_min, heuristic_cost, penalties) ==
    (IF hard_ok THEN 600 ELSE 0)
        - Min(Max(lateness_min, 0), 60) * 3
        - Min(Max(heuristic_cost, 0), 60) * 3
        - penalties

\* score_confidence in units of 1/600: 600 stands for 1.0, 180 for 0.3 and
\* a lateness or cost of m minutes costs min(max(m,0),60)*3.  All the
\* quantities of the source are multiples of 1/600 for integer arguments.
score_confidence(hard_ok, lateness_min, heuristic_cost, penalties) ==
    LET base == IF hard_ok THEN 600 ELSE 0
        late_pen == Min(Max(lateness_min, 0), 60) * 3
        cost_pen == Min(Max(heuristic_cost, 0), 60) * 3
    IN Max(0, Min(600, base - late_pen - cost_pen - penalties))

----------------------------------------------------------------------------
(* solver.py *)

\* H = time_horizon_min // slot
H == HorizonMin \div slot

\* minutes from time_ref to a datetime: int((x-time_ref).total_seconds()//60)
MinutesFrom(time_ref, x) == x - time_ref

dur_k(req) == Max(1, req.duration_min \div slot)
earliest_k(req, time_ref) == Max(0, MinutesFrom(time_ref, req.earliest) \div slot)
latest_k(req) == H - dur_k(req)

\* A valuation of the Booleans x[(i,d,t)] that meets "each job at most once" is
\* a function from request index to None or Some(<<d, t>>), d an index of doors.
Valuations(requests, doors) ==
    [1..Len(requests) ->
        {None} \cup {Some(<<d, t>>) : d \in 1..Len(doors), t \in 0..(H-1)}]

\* x[(i,d,s)] = 1
Starts(x, i, d, s) == x[i] # None /\ x[i][1] = <<d, s>>

\* door capacity: for every door d and slot t the variables x[(i,d,s)] with
\* s in range(max(0, t-k+1), t+1), k the slot count of job i, sum to at most 1
DoorCapacity(x, requests, doors) ==
    \A d \in 1..Len(doors) : \A t \in 0..(H-1) :
        Cardinality({i \in 1..Len(requests) :
            \E s \in Max(0, t - dur_k(requests[i]) + 1)..t : Starts(x, i, d, s)}) <= 1

\* outside window: x[(i,d,t)] == 0 when t < earliest_k or t > latest_k
StartWindow(x, requests, time_ref) ==
    \A i \in 1..Len(requests) :
        x[i] # None =>
            /\ x[i][1][2] >= earliest_k(requests[i], time_ref)
            /\ x[i][1][2] <= latest_k(requests[i])

Feasible(x, requests, doors, time_ref) ==
    /\ DoorCapacity(x, requests, doors)
    /\ StartWindow(x, requests, time_ref)

\* the coefficient of x[(i,d,t)] in the objective
SlotCost(req, t, time_ref) ==
    LET end_min == (t + dur_k(req)) * slot
        lateness == IF req.deadline # None
                    THEN Max(0, end_min - Max(0, MinutesFrom(time_ref, req.deadline[1])))
                    ELSE 0
        wait == Max(0, t * slot - Max(0, MinutesFrom(time_ref, req.earliest)))
    IN wait + 2 * lateness - 5 * req.priority

Objective(x, requests, time_ref) ==
    LET Term[i \in 0..Len(requests)] ==
            IF i = 0 THEN 0
            ELSE Term[i-1] + (IF x[i] = None THEN 0
                              ELSE SlotCost(requests[i], x[i][1][2], time_ref))
    IN Term[Len(requests)]

FeasibleSet(requests, doors, time_ref) ==
    {x \in Valuations(requests, doors) : Feasible(x, requests, doors, time_ref)}

\* a search that reports any valuation meeting the constraints as optimal
OptimalSet_Any(F, requests, time_ref) == F

\* the minimisers of the objective among a set F of valuations
OptimalSet(F, requests, time_ref) ==
    LET values == {Objective(x, requests, time_ref) : x \in F}
        best == CHOOSE m \in values : \A n \in values : m <= n
    IN {x \in F : Objective(x, requests, time_ref) = best}

\* the entry of out for one assigned job
OutEntry(req, door, t, time_ref) ==
    LET start == time_ref + t * slot
        end == start + req.duration_min
        lateness == IF req.deadline # None THEN Max(0, end - req.deadline[1]) ELSE 0
        wait == Max(0, start - req.earliest)
        local_cost == wait + 2 * lateness - 5 * req.priority
    IN [door_id |-> door, start |-> start, end |-> end,
        lateness |-> lateness, local_cost |-> local_cost]

\* out, as a function from request index to None or Some(entry)
Extract(x, requests, doors, time_ref) ==
    [i \in 1..Len(requests) |->
        IF x[i] = None THEN None
        ELSE Some(OutEntry(requests[i], doors[x[i][1][1]], x[i][1][2], time_ref))]

\* solve_batch: what solver.Solve can end with.  OPTIMAL is any minimiser of
\* the objective, FEASIBLE (budget exhausted) any valuation meeting the
\* constraints, UNKNOWN (budget exhausted before any incumbent) leaves out empty.
solve_batch(requests, doors, time_ref) ==
    LET F == FeasibleSet(requests, doors, time_ref)
    IN {[res |-> "OPTIMAL", out |-> Extract(x, requests, doors, time_ref)] :
            x \in OptimalSet(F, requests, time_ref)}
       \cup
       {[res |-> "FEASIBLE", out |-> Extract(x, requests, doors, time_ref)] : x \in F}
       \cup
       {[res |-> "UNKNOWN", out |-> [i \in 1..Len(requests) |-> None]]}

----------------------------------------------------------------------------
(* agent.py *)

\* The Proposal built from the candidate best.  The field earliest is a
\* history field: the earliest-ready time of the job the proposal was made
\* for; the source does not keep it.
MakeProposal(job_type, ref_id, best, earliest) ==
    [job_type |-> job_type, ref_id |-> ref_id, door_id |-> best.door_id,
     start_utc |-> best.start, end_utc |-> best.end,
     local_cost |-> best.local_cost, lateness_min |-> best.lateness,
     earliest |-> earliest]

\* propose_inbound returns None or Some(Proposal)
propose_inbound(doors, assignments, t_now, req) ==
    LET best == greedy_assign(doors, assignments, t_now,
                    [earliest |-> req.eta_utc, duration_min |-> req.unload_min,
                     deadline |-> None, priority |-> req.priority,
                     max_wait_min |-> req.window_min])
    IN IF best = None THEN None
       ELSE Some(MakeProposal("inbound", req.truck_id, best[1], req.eta_utc))

\* propose_outbound: earliest is the current minute, the deadline the cutoff
propose_outbound(doors, assignments, t_now, req) ==
    LET best == greedy_assign(doors, assignments, t_now,
                    [earliest |-> t_now, duration_min |-> req.load_min,
                     deadline |-> Some(req.cutoff_utc), priority |-> req.priority,
                     max_wait_min |-> req.window_min])
    IN IF best = None THEN None
       ELSE Some(MakeProposal("outbound", req.load_id, best[1], t_now))

\* the row INSERT OR REPLACE INTO dock_assignments writes; assignment_id is a
\* fresh uuid, so the statement always adds a row (its position names it)
AssignmentRow(p) ==
    [door_id |-> p.door_id, job_type |-> p.job_type, ref_id |-> p.ref_id,
     start_utc |-> p.start_utc, end_utc |-> p.end_utc, status |-> "scheduled",
     why_json |-> [local_cost |-> p.local_cost, lateness_min |-> p.lateness_min],
     earliest |-> p.earliest]

\* the row _log_event writes
EventRow(p, event_type, reason_code) ==
    [door_id |-> p.door_id, job_type |-> p.job_type, ref_id |-> p.ref_id,
     event_type |-> event_type, reason_code |-> reason_code]

\* the acceptance test of decide_and_commit; the scorer is called with
\* penalties=0.0 and 360 stands for 0.6
Accepts(ok, p) ==
    ok /\ score_confidence(ok, p.lateness_min, p.local_cost, 0) >= 360

\* one iteration of the loop of decide_and_commit over the running state
\* st = [assignments, events, accepted, penalties]
DecideStep(st, doors, resources, p) ==
    LET chk == hard_checks(doors, st.assignments, resources, p)
    IN IF Accepts(chk[1], p)
       THEN [assignments |-> Append(st.assignments, AssignmentRow(p)),
             events |-> Append(st.events, EventRow(p, "assigned", "heuristic_choice")),
             accepted |-> Append(st.accepted, p),
             penalties |-> st.penalties]
       ELSE [st EXCEPT !.penalties = @ + 60]

\* the loop of decide_and_commit, left at the first rejected proposal
RECURSIVE DecideLoop_StopAtReject(_, _, _, _)
DecideLoop_StopAtReject(st, doors, resources, ps) ==
    IF ps = << >> THEN st
    ELSE LET next == DecideStep(st, doors, resources, Head(ps))
         IN IF Len(next.accepted) = Len(st.accepted) THEN next
            ELSE DecideLoop_StopAtReject(next, doors, resources, Tail(ps))

RECURSIVE DecideLoop(_, _, _, _)
DecideLoop(st, doors, resources, ps) ==
    IF ps = << >> THEN st
    ELSE DecideLoop(DecideStep(st, doors, resources, Head(ps)), doors, resources, Tail(ps))

\* avg_conf is conf_sum / (600 * Len(accepted)), and 0.0 when nothing is accepted
RECURSIVE HeuristicConfSum(_)
HeuristicConfSum(accepted) ==
    IF accepted = << >> THEN 0
    ELSE score_confidence(TRUE, Head(accepted).lateness_min, Head(accepted).local_cost, 0)
            + HeuristicConfSum(Tail(accepted))

\* decide_and_commit: the tables after the call and the Decision returned
decide_and_commit(doors, resources, assignments, events, ps) ==
    LET st == DecideLoop([assignments |-> assignments, events |-> events,
                          accepted |-> << >>, penalties |-> 0],
                         doors, resources, ps)
    IN [assignments |-> st.assignments, events |-> st.events,
        decision |-> [accepted_proposals |-> st.accepted,
                      conf_sum |-> HeuristicConfSum(st.accepted),
                      why |-> "heuristic_commit"]]

\* one iteration of the loop of optimize_batch_and_commit: request number i
\* of the batch and the solver's entry for it
OptimizeStep(st, doors, resources, req, s) ==
    IF s = None THEN st
    ELSE LET p == MakeProposal(req.job_type, req.id, s[1], req.earliest)
             chk == hard_checks(doors, st.assignments, resources, p)
         IN IF chk[1]
            THEN [assignments |-> Append(st.assignments, AssignmentRow(p)),
                  events |-> Append(st.events, EventRow(p, "assigned", "solver_choice")),
                  accepted |-> Append(st.accepted, p)]
            ELSE st

RECURSIVE OptimizeLoop(_, _, _, _, _, _)
OptimizeLoop(st, doors, resources, requests, sol, i) ==
    IF i > Len(requests) THEN st
    ELSE OptimizeLoop(OptimizeStep(st, doors, resources, requests[i], sol[i]),
                      doors, resources, requests, sol, i + 1)

\* conf is conf_sum / (600 * Len(accepted)), and 0.0 when nothing is accepted
RECURSIVE SolverConfSum(_)
SolverConfSum(accepted) ==
    IF accepted = << >> THEN 0
    ELSE (600 - Min(Max(Head(accepted).lateness_min, 0), 60) * 3)
            + SolverConfSum(Tail(accepted))

\* optimize_batch_and_commit, given the solution sol that solve_batch returned
optimize_batch_and_commit(doors, resources, assignments, events, requests, sol) ==
    LET st == OptimizeLoop([assignments |-> assignments, events |-> events,
                            accepted |-> << >>],
                           doors, resources, requests, sol, 1)
    IN [assignments |-> st.assignments, events |-> st.events,
        decision |-> [accepted_proposals |-> st.accepted,
                      conf_sum |-> SolverConfSum(st.accepted),
                      why |-> "solver_commit"]]

----------------------------------------------------------------------------
(* Inputs *)

\* dock_doors as seeded (all doors active), with the first door taken out of
\* service, or with no door in service
AllActive == [d \in DoorSet |-> 1]
NoneActive == [d \in DoorSet |-> 0]
DoorTables == {AllActive, [d \in DoorSet |-> IF d = 1 THEN 0 ELSE 1]}

\* the resource calendar: consecutive slots from minute 0, fully staffed, or
\* with no crew in the third slot
CalendarSlots == 0..((HorizonMin + 10) \div ResSlotMin)
FullCalendar ==
    {[slot_start_utc |-> k * ResSlotMin, slot_end_utc |-> (k + 1) * ResSlotMin,
      crews |-> 3, forklifts |-> 3] : k \in CalendarSlots}
ShortCalendar ==
    {[slot_start_utc |-> k * ResSlotMin, slot_end_utc |-> (k + 1) * ResSlotMin,
      crews |-> IF k = 2 THEN 0 ELSE 3, forklifts |-> 3] : k \in CalendarSlots}
Calendars == {FullCalendar, ShortCalendar}

Priorities == 0..MaxPriority

\* RequestInboundSlot
InboundRequests ==
    [truck_id : {"T-001"}, eta_utc : {0, 7}, unload_min : {5, 10},
     priority : {0}, window_min : {10}]

\* RequestOutboundSlot
OutboundRequests ==
    [load_id : {"L-001"}, cutoff_utc : {10}, load_min : {10},
     priority : Priorities, window_min : {10}]

\* the request dicts of optimize_batch_and_commit: one job, or two
JobIds == <<"T-002", "L-002">>
FirstJobs ==
    [id : {JobIds[1]}, job_type : {"inbound"}, earliest : {7},
     deadline : {None}, duration_min : {5, 7}, priority : {MaxPriority}]
SecondJobs ==
    [id : {JobIds[2]}, job_type : {"outbound"}, earliest : {0},
     deadline : {Some(5), Some(-25)}, duration_min : {10}, priority : {MaxPriority}]
Batches ==
    {<<a>> : a \in FirstJobs} \cup {<<a, b>> : a \in FirstJobs, b \in SecondJobs}

\* solve_batch on the batches and door lists the operations below call it
\* with, at time_ref 0; a table of its values, so that each is computed once
DoorLists == {ActiveDoors(doors) : doors \in DoorTables \cup {NoneActive}}
SolveBatchAt0 ==
    [requests \in Batches, doors \in DoorLists |-> solve_batch(requests, doors, 0)]

NoDecision == [accepted_proposals |-> << >>, conf_sum |-> 0, why |-> "none"]
NoCall == [op |-> "none"]

----------------------------------------------------------------------------
(* The operations of agent.py, run one at a time *)

Init ==
    /\ now = 0
    /\ dock_doors \in {AllActive, NoneActive}
    /\ dock_resources \in Calendars
    /\ dock_assignments = << >>
    /\ dock_events = << >>
    /\ proposals = {}
    /\ decision = NoDecision
    /\ call = NoCall
    /\ pc = << >>

Hold(result) ==
    proposals' = IF result = None THEN proposals ELSE proposals \cup {result[1]}

ProposeInbound ==
    /\ Cardinality(proposals) < MaxHeld
    /\ \E req \in InboundRequests :
          Hold(propose_inbound(dock_doors, dock_assignments, now, req))
    /\ UNCHANGED <<now, dock_doors, dock_resources, dock_assignments, dock_events,
                   decision, call, pc>>

ProposeOutbound ==
    /\ Cardinality(proposals) < MaxHeld
    /\ \E req \in OutboundRequests :
          Hold(propose_outbound(dock_doors, dock_assignments, now, req))
    /\ UNCHANGED <<now, dock_doors, dock_resources, dock_assignments, dock_events,
                   decision, call, pc>>

\* a caller commits one or two of the proposals it holds
HeldBatches ==
    {<<p>> : p \in proposals}
        \cup {pq \in proposals \X proposals : pq[1] # pq[2]}

RangeOf(seq) == {seq[i] : i \in 1..Len(seq)}

DecideAndCommit ==
    \E ps \in HeldBatches :
        /\ LET r == decide_and_commit(dock_doors, dock_resources,
                                      dock_assignments, dock_events, ps)
           IN /\ Len(r.assignments) <= MaxRows
              /\ dock_assignments' = r.assignments
              /\ dock_events' = r.events
              /\ decision' = r.decision
        /\ proposals' = proposals \ RangeOf(ps)
        /\ UNCHANGED <<now, dock_doors, dock_resources, call, pc>>

OptimizeBatchAndCommit ==
    \E requests \in Batches :
        /\ Len(dock_assignments) < MaxRows
        /\ IF ActiveDoors(dock_doors) = << >>
           THEN /\ decision' = [accepted_proposals |-> << >>, conf_sum |-> 0,
                                why |-> "no_doors"]
                /\ UNCHANGED <<dock_assignments, dock_events>>
           ELSE \E s \in (IF now = 0
                            THEN SolveBatchAt0[requests, ActiveDoors(dock_doors)]
                            ELSE solve_batch(requests, ActiveDoors(dock_doors), now)) :
                  LET r == optimize_batch_and_commit(dock_doors, dock_resources,
                              dock_assignments, dock_events, requests, s.out)
                  IN /\ Len(r.assignments) <= MaxRows
                     /\ dock_assignments' = r.assignments
                     /\ dock_events' = r.events
                     /\ decision' = r.decision
        /\ UNCHANGED <<now, dock_doors, dock_resources, proposals, call, pc>>

Next ==
    \/ ProposeInbound
    \/ ProposeOutbound
    \/ DecideAndCommit
    \/ OptimizeBatchAndCommit

Spec == Init /\ [][Next]_vars

----------------------------------------------------------------------------
(* The no-overlap invariant of the persisted assignments *)

ActiveStatus(r) == r.status \in {"scheduled", "in_progress"}

\* the half-open intervals [s1, e1) and [s2, e2) share an instant
ShareInstant(s1, e1, s2, e2) == Max(s1, s2) < Min(e1, e2)

DoubleBooked(table) ==
    \E i, j \in 1..Len(table) :
        /\ i < j
        /\ ActiveStatus(table[i]) /\ ActiveStatus(table[j])
        /\ table[i].door_id = table[j].door_id
        /\ ShareInstant(table[i].start_utc, table[i].end_utc,
                        table[j].start_utc, table[j].end_utc)

\* C1: after any sequence of decide_and_commit and optimize_batch_and_commit
\* calls run one at a time from a table without overlaps, no two assignments
\* with status scheduled or in_progress on one door have overlapping
\* half-open intervals.
C1_NoOverlap == ~DoubleBooked(dock_assignments)

\* two scheduled assignments stand back to back on one door, and the last
\* commit turned down a proposal
C1_Witness ==
    /\ \E i, j \in 1..Len(dock_assignments) :
          /\ i # j
          /\ dock_assignments[i].door_id = dock_assignments[j].door_id
          /\ dock_assignments[i].end_utc = dock_assignments[j].start_utc
    /\ decision.why = "heuristic_commit"
    /\ decision.accepted_proposals = << >>

\* C7: every persisted assignment starts at or after the earliest-ready
\* time of its job, whichever allocator proposed it.
C7_StartNotBeforeEarliest ==
    \A i \in 1..Len(dock_assignments) :
        dock_assignments[i].start_utc >= dock_assignments[i].earliest

\* the confidence the scorer gives a persisted assignment, from the cost and
\* lateness recorded in its why_json
RowConfidence(r) ==
    score_confidence(TRUE, r.why_json.lateness_min, r.why_json.local_cost, 0)

\* C11: an assignment is persisted, by decide_and_commit and by
\* optimize_batch_and_commit, only if the validator passed and the scorer's
\* confidence for its lateness and cost is at least 0.6 (360/600).
C11_PersistedOnlyIfConfident ==
    \A i \in 1..Len(dock_assignments) : RowConfidence(dock_assignments[i]) >= 360

\* the sum, over the accepted proposals, of the scorer's confidence
RECURSIVE ScorerConfSum(_)
ScorerConfSum(accepted) ==
    IF accepted = << >> THEN 0
    ELSE score_confidence(TRUE, Head(accepted).lateness_min, Head(accepted).local_cost, 0)
            + ScorerConfSum(Tail(accepted))

\* C12: the confidence of the returned Decision is the mean of the scorer's
\* confidence over the accepted proposals (the sums agree, the mean being
\* the sum over the same count), and 0 when none is accepted.
C12_ConfidenceIsMean ==
    decision.why \in {"heuristic_commit", "solver_commit"} =>
        decision.conf_sum = ScorerConfSum(decision.accepted_proposals)

\* C28: after any sequence of propose, decide_and_commit and
\* optimize_batch_and_commit calls, each job (ref id) has at most one
\* persisted assignment with status scheduled or in_progress.
C28_OneActiveRowPerJob ==
    \A i, j \in 1..Len(dock_assignments) :
        (/\ i # j
         /\ ActiveStatus(dock_assignments[i]) /\ ActiveStatus(dock_assignments[j]))
            => dock_assignments[i].ref_id # dock_assignments[j].ref_id

----------------------------------------------------------------------------
(* greedy_assign as a function of the committed state and the request *)

\* assignments already in the table when the allocator is called
SeedIntervals == {<<-5, 5>>, <<0, 10>>, <<5, 10>>, <<10, 20>>}
SeedRow(d, iv, status) ==
    [door_id |-> d, job_type |-> "inbound", ref_id |-> "T-000",
     start_utc |-> iv[1], end_utc |-> iv[2], status |-> status,
     earliest |-> iv[1]]
\* scheduled assignments, and assignments cancelled or completed from outside
ClosedIntervals == {<<0, 10>>}
SeedRows ==
    {SeedRow(d, iv, "scheduled") : d \in DoorSet, iv \in SeedIntervals}
        \cup {SeedRow(d, iv, st) : d \in DoorSet, iv \in ClosedIntervals,
                                   st \in {"cancelled"}}

\* the tables of at most MaxRows distinct seed rows, in every row order
RECURSIVE SeedTables(_)
SeedTables(n) ==
    IF n = 0 THEN {<< >>}
    ELSE LET shorter == SeedTables(n - 1)
         IN shorter \cup
            {Append(t, r) : t \in {u \in shorter : Len(u) = n - 1},
                            r \in SeedRows}

DistinctRows(t) == \A i, j \in 1..Len(t) : i # j => t[i] # t[j]

\* the arguments of greedy_assign
GreedyRequests ==
    [earliest : {-3, 0, 4}, duration_min : {5, 10}, deadline : {None, Some(10)},
     priority : Priorities, max_wait_min : {0, 10}]

InitGreedy ==
    /\ now = 0
    /\ dock_doors \in DoorTables
    /\ dock_resources = FullCalendar
    /\ dock_assignments \in {t \in SeedTables(MaxRows) : DistinctRows(t)}
    /\ dock_events = << >>
    /\ proposals = {}
    /\ decision = NoDecision
    /\ \E req \in GreedyRequests :
          call = [op |-> "greedy_assign", req |-> req, done |-> FALSE, best |-> None]
    /\ pc = << >>

GreedyAssign ==
    /\ call.op = "greedy_assign"
    /\ ~call.done
    /\ call' = [call EXCEPT !.done = TRUE,
                            !.best = greedy_assign(dock_doors, dock_assignments,
                                                   now, call.req)]
    /\ UNCHANGED <<now, dock_doors, dock_resources, dock_assignments, dock_events,
                   proposals, decision, pc>>

NextGreedy == GreedyAssign

SpecGreedy == InitGreedy /\ [][NextGreedy]_vars

Returned == call.op = "greedy_assign" /\ call.done

\* C3: a candidate greedy_assign returns never waits longer than the
\* requested maximum: start minus earliest-ready is at most max_wait_min.
C3_WaitWithinMax ==
    (Returned /\ call.best # None) =>
        call.best[1].start - call.req.earliest <= call.req.max_wait_min

\* the allocator returned a candidate that waits, behind an assignment
C3_Witness ==
    /\ Returned /\ call.best # None
    /\ call.best[1].start - call.req.earliest > 0
    /\ call.req.max_wait_min > 0

\* the candidates greedy_assign generates from the free windows, by
\* position: window j of entry i
FreeNow == load_free_windows(dock_doors, dock_assignments, now, HorizonMin)
CandidateAt(free, ij) == Candidate(free[ij[1]].door, free[ij[1]].slots[ij[2]], call.req)
Positions(free) ==
    {ij \in (1..Len(free)) \X (1..(2 * MaxRows + 2)) :
        /\ ij[2] <= Len(free[ij[1]].slots)
        /\ CandidateAt(free, ij) # None}
CostAt(free, ij) == CandidateAt(free, ij)[1].local_cost
Before(ij, kl) == ij[1] < kl[1] \/ (ij[1] = kl[1] /\ ij[2] < kl[2])

\* C4: greedy_assign returns a candidate of minimal cost
\* wait + 2*lateness - 5*priority among the candidates it generates, the
\* first such one in door-then-window order; with every door empty and
\* earliest-ready = now it is the first door, starting at earliest-ready.
C4_MinCostFirstFound ==
    Returned =>
        LET free == FreeNow
            pos == Positions(free)
        IN /\ (call.best = None) <=> (pos = {})
           /\ call.best # None =>
                 \E ij \in pos :
                     /\ call.best = CandidateAt(free, ij)
                     /\ \A kl \in pos : CostAt(free, ij) <= CostAt(free, kl)
                     /\ \A kl \in pos :
                           Before(kl, ij) => CostAt(free, kl) > CostAt(free, ij)
           /\ (/\ dock_assignments = << >>
               /\ call.req.earliest = now
               /\ call.req.duration_min <= HorizonMin
               /\ call.req.max_wait_min >= 0
               /\ ActiveDoors(dock_doors) # << >>)
                 => /\ call.best # None
                    /\ call.best[1].door_id = ActiveDoors(dock_doors)[1]
                    /\ call.best[1].start = call.req.earliest
                    /\ call.best[1].end = call.req.earliest + call.req.duration_min
                    /\ call.best[1].local_cost = - 5 * call.req.priority
                           + 2 * call.best[1].lateness

\* two candidates of equal minimal cost were generated and one was returned
C4_Witness ==
    /\ Returned /\ call.best # None
    /\ LET free == FreeNow
           pos == Positions(free)
       IN \E ij, kl \in pos :
             /\ ij # kl
             /\ CostAt(free, ij) = CostAt(free, kl)
             /\ \A mn \in pos : CostAt(free, ij) <= CostAt(free, mn)

\* start s on door d is a placement: the door is active, the job waits no
\* longer than allowed, and [s, s+duration) lies in the horizon and meets no
\* assignment of the table on that door
Placement(d, s) ==
    /\ dock_doors[d] = 1
    /\ s >= call.req.earliest
    /\ s - call.req.earliest <= call.req.max_wait_min
    /\ s >= now
    /\ s + call.req.duration_min <= now + HorizonMin
    /\ \A i \in 1..Len(dock_assignments) :
          dock_assignments[i].door_id = d =>
              ~ShareInstant(s, s + call.req.duration_min,
                            dock_assignments[i].start_utc, dock_assignments[i].end_utc)
Instants == (now - 5)..(now + HorizonMin)

RECURSIVE ActiveRows(_)
ActiveRows(table) ==
    IF table = << >> THEN << >>
    ELSE (IF ActiveStatus(Head(table)) THEN << Head(table) >> ELSE << >>)
            \o ActiveRows(Tail(table))

\* the windows of door d in a result of load_free_windows
WindowsOf(free, d) ==
    IF \E i \in 1..Len(free) : free[i].door = d
    THEN free[CHOOSE i \in 1..Len(free) : free[i].door = d].slots
    ELSE << >>

\* C16: load_free_windows subtracts only the assignments with status
\* scheduled or in_progress: the windows of every active door are those
\* computed from these rows alone, and greedy_assign returns what it returns
\* on the table without the cancelled and completed rows.
C16_ClosedRowsFreeTheDoor ==
    Returned =>
        LET open == ActiveRows(dock_assignments)
        IN /\ \A d \in DoorSet :
                 dock_doors[d] = 1 =>
                     WindowsOf(FreeNow, d)
                         = WindowsOf(load_free_windows(dock_doors, open, now, HorizonMin), d)
           /\ call.best = greedy_assign(dock_doors, open, now, call.req)

\* the Proposal propose_inbound and propose_outbound build from the
\* candidate greedy_assign returned
ProposalOfBest ==
    MakeProposal("inbound", "T-001", call.best[1], call.req.earliest)

\* hard_checks on that proposal, with the tables as they were at the proposal
CheckOfBest ==
    hard_checks(dock_doors, dock_assignments, dock_resources, ProposalOfBest)

\* C29: with no commit between the proposal and decide_and_commit, the
\* returned proposal does not fail hard_checks with
\* inactive_or_missing_door or double_booking.
C29_ProposalPassesDoorAndOverlap ==
    (Returned /\ call.best # None) =>
        CheckOfBest[2] \notin {"inactive_or_missing_door", "double_booking"}

\* a proposal placed right behind a scheduled assignment of its door, with
\* another door out of service, passes hard_checks
C29_Witness ==
    /\ Returned /\ call.best # None
    /\ \E d \in DoorSet : dock_doors[d] = 0
    /\ \E i \in 1..Len(dock_assignments) :
          /\ dock_assignments[i].door_id = call.best[1].door_id
          /\ dock_assignments[i].status = "scheduled"
          /\ dock_assignments[i].end_utc = call.best[1].start
    /\ CheckOfBest = <<TRUE, "ok">>

\* minute t of door d lies in an assignment interval of the table
Covered(d, t) ==
    \E i \in 1..Len(dock_assignments) :
        /\ dock_assignments[i].door_id = d
        /\ dock_assignments[i].start_utc <= t /\ t < dock_assignments[i].end_utc

\* C25: for every active door the windows load_free_windows returns are
\* non-empty, lie in [now, now+horizon], are in chronological order without
\* overlap, and together are exactly the time of [now, now+horizon] that no
\* assignment interval on the door covers.
C25_FreeWindowsExact ==
    Returned =>
        LET free == FreeNow
        IN \A d \in DoorSet :
              dock_doors[d] = 1 =>
                  LET ws == WindowsOf(free, d)
                  IN /\ \A k \in 1..Len(ws) :
                           /\ ws[k][1] < ws[k][2]
                           /\ now <= ws[k][1] /\ ws[k][2] <= now + HorizonMin
                     /\ \A k \in 1..(Len(ws) - 1) : ws[k][2] <= ws[k+1][1]
                     /\ \A t \in now..(now + HorizonMin - 1) :
                           (\E k \in 1..Len(ws) : ws[k][1] <= t /\ t < ws[k][2])
                               <=> ~Covered(d, t)

\* an assignment inside the horizon left a window before it and one after
\* it on an active door
C25_Witness ==
    /\ Returned
    /\ \E d \in DoorSet :
          /\ dock_doors[d] = 1
          /\ Len(WindowsOf(FreeNow, d)) = 2
          /\ \E i \in 1..Len(dock_assignments) :
                /\ dock_assignments[i].door_id = d
                /\ WindowsOf(FreeNow, d)[1][2] = dock_assignments[i].start_utc
                /\ WindowsOf(FreeNow, d)[2][1] = dock_assignments[i].end_utc

----------------------------------------------------------------------------
(* solve_batch as a function of the batch, run once and run again *)

SolverFirstJobs ==
    [id : {JobIds[1]}, job_type : {"inbound"}, earliest : {-8, 0, 7, 15},
     deadline : {None, Some(5)}, duration_min : {5, 7}, priority : Priorities]
SolverSecondJobs ==
    [id : {JobIds[2]}, job_type : {"outbound"}, earliest : {0, 7},
     deadline : {None}, duration_min : {7}, priority : Priorities]
SolverBatches ==
    {<<a>> : a \in SolverFirstJobs}
        \cup {<<a, b>> : a \in SolverFirstJobs, b \in SolverSecondJobs}

NotRun == [res |-> "none", out |-> << >>]
NoFirstRun == [res |-> "none", total |-> 0]

\* the sum of the returned local_cost over the assigned jobs
TotalCost(out) ==
    LET Term[i \in 0..Len(out)] ==
            IF i = 0 THEN 0
            ELSE Term[i-1] + (IF out[i] = None THEN 0 ELSE out[i][1].local_cost)
    IN Term[Len(out)]

InitSolver ==
    /\ now = 0
    /\ dock_doors = AllActive
    /\ dock_resources = FullCalendar
    /\ dock_assignments = << >>
    /\ dock_events = << >>
    /\ proposals = {}
    /\ decision = NoDecision
    /\ \E requests \in SolverBatches :
          call = [op |-> "solve_batch", requests |-> requests, runs |-> 0,
                  result |-> NotRun, first |-> NoFirstRun]
    /\ pc = << >>

\* solve_batch(requests, doors, time_ref) returns
SolveBatch ==
    /\ call.op = "solve_batch"
    /\ call.runs = 0
    /\ \E r \in solve_batch(call.requests, ActiveDoors(dock_doors), now) :
          call' = [call EXCEPT !.runs = 1, !.result = r]
    /\ UNCHANGED <<now, dock_doors, dock_resources, dock_assignments, dock_events,
                   proposals, decision, pc>>

\* solve_batch is run a second time on the same arguments; of the first run
\* the status and the total of the returned local_cost are kept
SolveAgain ==
    /\ call.op = "solve_batch"
    /\ call.runs = 1
    /\ \E r \in solve_batch(call.requests, ActiveDoors(dock_doors), now) :
          call' = [call EXCEPT !.runs = 2, !.result = r,
                               !.first = [res |-> call.result.res,
                                          total |-> TotalCost(call.result.out)]]
    /\ UNCHANGED <<now, dock_doors, dock_resources, dock_assignments, dock_events,
                   proposals, decision, pc>>

NextSolver == SolveBatch \/ SolveAgain

SpecSolver == InitSolver /\ [][NextSolver]_vars

Solved == call.op = "solve_batch" /\ call.runs >= 1 /\ call.result.res \in {"OPTIMAL", "FEASIBLE"}
Assigned(i) == call.result.out[i] # None
Entry(i) == call.result.out[i][1]

\* C6: for every job of the returned solution, the start slot is not before
\* the job's earliest-ready slot and the end (start + duration) is not after
\* time_ref + horizon.
C6_StartWindowAndHorizon ==
    Solved =>
        \A i \in 1..Len(call.requests) :
            Assigned(i) =>
                /\ (Entry(i).start - now) \div slot
                      >= Max(0, (call.requests[i].earliest - now) \div slot)
                /\ Entry(i).end = Entry(i).start + call.requests[i].duration_min
                /\ Entry(i).end <= now + HorizonMin

\* C8: in every returned solution no two jobs on one door have overlapping
\* intervals [start, start + duration).
C8_DoorServesOneJob ==
    Solved =>
        \A i, j \in 1..Len(call.requests) :
            (i < j /\ Assigned(i) /\ Assigned(j) /\ Entry(i).door_id = Entry(j).door_id)
                => ~ShareInstant(Entry(i).start, Entry(i).end, Entry(j).start, Entry(j).end)

\* C9: when the solution is optimal, the sum of the returned local_cost is
\* the minimum of that sum over all assignments that meet the at-most-once,
\* door-capacity and start-window constraints.
C9_ReturnedCostMinimal ==
    (call.op = "solve_batch" /\ call.runs >= 1 /\ call.result.res = "OPTIMAL") =>
        \A y \in FeasibleSet(call.requests, ActiveDoors(dock_doors), now) :
            TotalCost(call.result.out)
                <= TotalCost(Extract(y, call.requests, ActiveDoors(dock_doors), now))

\* C10: two runs on the same arguments that both end OPTIMAL return the
\* same total of local_cost.
C10_SameTotalCost ==
    (call.op = "solve_batch" /\ call.runs = 2
        /\ call.result.res = "OPTIMAL" /\ call.first.res = "OPTIMAL")
        => TotalCost(call.result.out) = call.first.total

\* job i has the strictly highest priority of the batch and the earliest
\* deadline
TopJob(i) ==
    /\ Len(call.requests) >= 2
    /\ call.requests[i].deadline # None
    /\ \A j \in 1..Len(call.requests) :
          j # i =>
              /\ call.requests[i].priority > call.requests[j].priority
              /\ \/ call.requests[j].deadline = None
                 \/ call.requests[i].deadline[1] < call.requests[j].deadline[1]

\* the lateness returned for job i in the schedules that meet the
\* constraints and assign it
LatenessChoices(i) ==
    {Extract(x, call.requests, ActiveDoors(dock_doors), now)[i][1].lateness :
        x \in {y \in FeasibleSet(call.requests, ActiveDoors(dock_doors), now) :
                  y[i] # None}}

\* C20: in a solved batch, a job with the strictly highest priority and the
\* earliest deadline is assigned, and the lateness returned for it is the
\* least it has in any feasible schedule.
C20_TopJobLeastLate ==
    Solved =>
        \A i \in 1..Len(call.requests) :
            (TopJob(i) /\ LatenessChoices(i) # {}) =>
                /\ Assigned(i)
                /\ \A l \in LatenessChoices(i) : Entry(i).lateness <= l

\* solve_batch run once
NextSolveOnce == SolveBatch
SpecSolveOnce == InitSolver /\ [][NextSolveOnce]_vars

SolvedOptimal ==
    call.op = "solve_batch" /\ call.runs >= 1 /\ call.result.res = "OPTIMAL"

\* the slot of the returned start of job i: start = time_ref + t * slot
ChosenSlot(i) == (Entry(i).start - now) \div slot

\* the slots the start window leaves to job i
WindowSlots(i) ==
    {t \in 0..(H - 1) : /\ t >= earliest_k(call.requests[i], now)
                        /\ t <= latest_k(call.requests[i])}

\* every start the window allows job i has a strictly positive cost
AlwaysCostly(i) ==
    \A t \in WindowSlots(i) : SlotCost(call.requests[i], t, now) > 0

\* C27: in an optimal solution every assigned job's objective cost at its
\* chosen slot (wait + 2*lateness - 5*priority) is at most 0, and a job
\* whose every allowed start has strictly positive cost is left unassigned.
C27_AssignedCostNotPositive ==
    SolvedOptimal =>
        \A i \in 1..Len(call.requests) :
            /\ Assigned(i) => SlotCost(call.requests[i], ChosenSlot(i), now) <= 0
            /\ AlwaysCostly(i) => ~Assigned(i)

\* an optimal solution of two jobs: one is assigned, the other has allowed
\* starts, all of positive cost, and is left out although a door stays free
C27_Witness ==
    /\ SolvedOptimal
    /\ Len(call.requests) = 2
    /\ Len(ActiveDoors(dock_doors)) >= 2
    /\ \E i, j \in 1..2 :
          /\ i # j
          /\ Assigned(j)
          /\ WindowSlots(i) # {} /\ AlwaysCostly(i)
          /\ ~Assigned(i)

----------------------------------------------------------------------------
(* Commits from concurrent callers.  Every call of decide_and_commit and of
   optimize_batch_and_commit opens its own sqlite3 connection (_conn); the
   request handlers of api.py are plain functions, which the server runs on
   a pool of threads.  A call is followed statement by statement: the reads
   of hard_checks see the committed table, the INSERT takes the write lock
   of the database file, and the commit of _log_event publishes the row and
   releases the lock. *)

NumCallers == 2
Callers == 1..NumCallers

Idle == [at |-> "start", kind |-> "none", prop |-> None, seen |-> << >>,
         accepted |-> FALSE, penalties |-> 0]

\* the database file's write lock is free, or held by one connection
Unlocked == [op |-> "commit", writer |-> None]

InitConc ==
    /\ now = 0
    /\ dock_doors = AllActive
    /\ dock_resources = FullCalendar
    /\ dock_assignments = << >>
    /\ dock_events = << >>
    /\ proposals = {}
    /\ decision = NoDecision
    /\ call = Unlocked
    /\ pc = [i \in Callers |-> Idle]

\* orchestrator: proposal = propose_inbound(req), then decide_and_commit([proposal])
CallDecide(i) ==
    /\ pc[i].at = "start"
    /\ \E req \in InboundRequests :
          LET prop == propose_inbound(dock_doors, dock_assignments, now, req)
          IN pc' = [pc EXCEPT ![i] =
                        [@ EXCEPT !.kind = "decide_and_commit", !.prop = prop,
                                  !.at = IF prop = None THEN "done" ELSE "hard_checks"]]
    /\ UNCHANGED <<now, dock_doors, dock_resources, dock_assignments, dock_events,
                   proposals, decision, call>>

\* optimize_batch_and_commit on one job, up to the Proposal built from sol
CallOptimize(i) ==
    /\ pc[i].at = "start"
    /\ \E req \in FirstJobs :
          \E s \in SolveBatchAt0[<<req>>, ActiveDoors(dock_doors)] :
              LET prop == IF s.out[1] = None THEN None
                          ELSE Some(MakeProposal(req.job_type, req.id,
                                                 s.out[1][1], req.earliest))
              IN pc' = [pc EXCEPT ![i] =
                            [@ EXCEPT !.kind = "optimize_batch_and_commit",
                                      !.prop = prop,
                                      !.at = IF prop = None THEN "done"
                                             ELSE "hard_checks"]]
    /\ UNCHANGED <<now, dock_doors, dock_resources, dock_assignments, dock_events,
                   proposals, decision, call>>

\* ok, why = hard_checks(conn, p), and the test that follows it
HardChecks(i) ==
    /\ pc[i].at = "hard_checks"
    /\ LET p == pc[i].prop[1]
           ok == hard_checks(dock_doors, dock_assignments, dock_resources, p)[1]
           pass == IF pc[i].kind = "decide_and_commit" THEN Accepts(ok, p) ELSE ok
       IN pc' = [pc EXCEPT ![i] =
                     [@ EXCEPT !.seen = dock_assignments,
                               !.at = IF pass THEN "insert" ELSE "done",
                               !.penalties = IF pass \/ pc[i].kind # "decide_and_commit"
                                             THEN @ ELSE @ + 60]]
    /\ UNCHANGED <<now, dock_doors, dock_resources, dock_assignments, dock_events,
                   proposals, decision, call>>

\* c.execute("INSERT OR REPLACE INTO dock_assignments ..."): the statement
\* opens the connection's transaction and takes the write lock
Insert(i) ==
    /\ pc[i].at = "insert"
    /\ call.writer = None
    /\ call' = [call EXCEPT !.writer = Some(i)]
    /\ pc' = [pc EXCEPT ![i] = [@ EXCEPT !.at = "_log_event"]]
    /\ UNCHANGED <<now, dock_doors, dock_resources, dock_assignments, dock_events,
                   proposals, decision>>

\* the INSERT finds the lock held for longer than the connection's timeout
\* and raises sqlite3.OperationalError
InsertLocked(i) ==
    /\ pc[i].at = "insert"
    /\ call.writer # None
    /\ pc' = [pc EXCEPT ![i] = [@ EXCEPT !.at = "raised"]]
    /\ UNCHANGED <<now, dock_doors, dock_resources, dock_assignments, dock_events,
                   proposals, decision, call>>

\* _log_event: the event row is inserted and conn.commit() publishes it with
\* the assignment row; accepted.append(p)
LogEvent(i) ==
    /\ pc[i].at = "_log_event"
    /\ LET p == pc[i].prop[1]
       IN /\ dock_assignments' = Append(dock_assignments, AssignmentRow(p))
          /\ dock_events' = Append(dock_events,
                EventRow(p, "assigned",
                         IF pc[i].kind = "decide_and_commit"
                         THEN "heuristic_choice" ELSE "solver_choice"))
    /\ call' = [call EXCEPT !.writer = None]
    /\ pc' = [pc EXCEPT ![i] = [@ EXCEPT !.at = "done", !.accepted = TRUE]]
    /\ UNCHANGED <<now, dock_doors, dock_resources, proposals, decision>>

\* a storage failure with the row kept: the connection commits what it
\* has written before the exception leaves the call
Fail_KeepsRow(i) ==
    /\ pc[i].at = "_log_event"
    /\ dock_assignments' = Append(dock_assignments, AssignmentRow(pc[i].prop[1]))
    /\ call' = [call EXCEPT !.writer = None]
    /\ pc' = [pc EXCEPT ![i] = [@ EXCEPT !.at = "failed"]]
    /\ UNCHANGED <<now, dock_doors, dock_resources, dock_events, proposals, decision>>

\* a storage failure between the INSERT into dock_assignments and the
\* INSERT of _log_event: the exception leaves the call, the connection is
\* dropped with its transaction open and the inserted row is rolled back
Fail(i) ==
    /\ pc[i].at = "_log_event"
    /\ call' = [call EXCEPT !.writer = None]
    /\ pc' = [pc EXCEPT ![i] = [@ EXCEPT !.at = "failed"]]
    /\ UNCHANGED <<now, dock_doors, dock_resources, dock_assignments, dock_events,
                   proposals, decision>>

NextConc ==
    \/ \E i \in Callers : CallDecide(i)
    \/ \E i \in Callers : CallOptimize(i)
    \/ \E i \in Callers : HardChecks(i)
    \/ \E i \in Callers : Insert(i)
    \/ \E i \in Callers : InsertLocked(i)
    \/ \E i \in Callers : LogEvent(i)
    \/ \E i \in Callers : Fail(i)

SpecConc == InitConc /\ [][NextConc]_vars

\* C2: two concurrent commit calls with proposals for one door and
\* overlapping intervals never both pass validation against the same
\* pre-insert table and both persist their assignment.
C2_SerializedCommit ==
    \A i, j \in Callers :
        (/\ i # j
         /\ pc[i].accepted /\ pc[j].accepted
         /\ pc[i].prop[1].door_id = pc[j].prop[1].door_id
         /\ ShareInstant(pc[i].prop[1].start_utc, pc[i].prop[1].end_utc,
                         pc[j].prop[1].start_utc, pc[j].prop[1].end_utc))
            => pc[i].seen # pc[j].seen

\* C23: the assignment row and the 'assigned' event of an accepted proposal
\* are persisted together: in every committed state, also after a storage
\* failure between the two writes, the rows and the 'assigned' events
\* correspond one to one (same door, job kind and ref id; here in the same
\* order).
C23_RowAndEventTogether ==
    (call.op = "commit") =>
        /\ Len(dock_assignments) = Len(dock_events)
        /\ \A k \in 1..Len(dock_assignments) :
              /\ dock_events[k].event_type = "assigned"
              /\ dock_events[k].door_id = dock_assignments[k].door_id
              /\ dock_events[k].job_type = dock_assignments[k].job_type
              /\ dock_events[k].ref_id = dock_assignments[k].ref_id
              /\ dock_assignments[k].status = "scheduled"

\* one call failed between its two writes and the other committed its pair
C23_Witness ==
    /\ call.op = "commit"
    /\ \E i, j \in Callers :
          /\ pc[i].at = "failed"
          /\ pc[j].at = "done" /\ pc[j].accepted
    /\ Len(dock_assignments) = 1

ReassignReasons == {"priority_change", "eta_slip", "operational_conflict"}

\* C17: when a later committed assignment claims a door and time that
\* overlap an existing scheduled assignment, the existing one has status
\* reassigned and a reassigned event with a classified reason is recorded
\* for the door.  (Rows are in commit order.)
C17_OverlapReassigns ==
    \A i, j \in 1..Len(dock_assignments) :
        (/\ i < j
         /\ dock_assignments[i].door_id = dock_assignments[j].door_id
         /\ ShareInstant(dock_assignments[i].start_utc, dock_assignments[i].end_utc,
                         dock_assignments[j].start_utc, dock_assignments[j].end_utc))
            => /\ dock_assignments[i].status = "reassigned"
               /\ \E k \in 1..Len(dock_events) :
                     /\ dock_events[k].event_type = "reassigned"
                     /\ dock_events[k].door_id = dock_assignments[i].door_id
                     /\ dock_events[k].reason_code \in ReassignReasons

----------------------------------------------------------------------------
(* score_confidence as a function of its arguments *)

\* lateness and cost in minutes, below 0, inside (0, 60) and beyond 60;
\* penalties in units of 1/600 (60 is the 0.1 decide_and_commit adds per
\* rejected proposal)
ScoreLateness == {-10, 0, 20, 60, 90}
ScoreCosts == {-15, 0, 30, 60, 200}
ScorePenalties == {0, 60, 120, 600, 900}

InitScore ==
    /\ now = 0
    /\ dock_doors = AllActive
    /\ dock_resources = FullCalendar
    /\ dock_assignments = << >>
    /\ dock_events = << >>
    /\ proposals = {}
    /\ decision = NoDecision
    /\ \E hard_ok \in BOOLEAN, lateness_min \in ScoreLateness,
          heuristic_cost \in ScoreCosts, penalties \in ScorePenalties :
          call = [op |-> "score_confidence", hard_ok |-> hard_ok,
                  lateness_min |-> lateness_min, heuristic_cost |-> heuristic_cost,
                  penalties |-> penalties, done |-> FALSE, conf |-> 0]
    /\ pc = << >>

\* conf = score_confidence(hard_ok, lateness_min, heuristic_cost, penalties)
ScoreConfidence ==
    /\ call.op = "score_confidence"
    /\ ~call.done
    /\ call' = [call EXCEPT !.done = TRUE,
                            !.conf = score_confidence(call.hard_ok, call.lateness_min,
                                                      call.heuristic_cost, call.penalties)]
    /\ UNCHANGED <<now, dock_doors, dock_resources, dock_assignments, dock_events,
                   proposals, decision, pc>>

NextScore == ScoreConfidence

SpecScore == InitScore /\ [][NextScore]_vars

Scored == call.op = "score_confidence" /\ call.done

\* C13: score_confidence returns a value in [0, 1] (0..600 in units of
\* 1/600) for every lateness, every cost, negative ones included, and every
\* penalty >= 0, and returns exactly 0 when the validator failed.
C13_ConfidenceInUnitInterval ==
    Scored =>
        /\ call.conf >= 0 /\ call.conf <= 600
        /\ (~call.hard_ok => call.conf = 0)

\* the scorer was called for a failed validation, a negative cost and a
\* positive penalty, and returned 0
C13_Witness ==
    /\ Scored
    /\ ~call.hard_ok /\ call.heuristic_cost < 0 /\ call.penalties > 0
    /\ call.conf = 0

----------------------------------------------------------------------------
(* hard_checks as a function of the tables and the proposal *)

\* calendars: fully staffed, no crew in the third slot, staffed slots for
\* the first ten minutes only, and no slot at all
EarlyCalendar == {c \in FullCalendar : c.slot_end_utc <= 2 * ResSlotMin}
ValidateCalendars == {FullCalendar, ShortCalendar, EarlyCalendar, {}}

\* proposals on a door of the table or on a door that does not exist, on
\* and off the slot grid
ValidateProposals ==
    {[door_id |-> d, start_utc |-> st, end_utc |-> st + dur] :
        d \in DoorSet \cup {NumDoors + 1}, st \in {0, 5, 7, 10}, dur \in {5, 10}}

InitValidate ==
    /\ now = 0
    /\ dock_doors \in DoorTables
    /\ dock_resources \in ValidateCalendars
    /\ dock_assignments \in {t \in SeedTables(MaxRows) : DistinctRows(t)}
    /\ dock_events = << >>
    /\ proposals = {}
    /\ decision = NoDecision
    /\ \E p \in ValidateProposals :
          call = [op |-> "hard_checks", p |-> p, done |-> FALSE,
                  ok |-> FALSE, why |-> "none"]
    /\ pc = << >>

\* ok, why = hard_checks(conn, proposal)
HardChecksCall ==
    /\ call.op = "hard_checks"
    /\ ~call.done
    /\ LET r == hard_checks(dock_doors, dock_assignments, dock_resources, call.p)
       IN call' = [call EXCEPT !.done = TRUE, !.ok = r[1], !.why = r[2]]
    /\ UNCHANGED <<now, dock_doors, dock_resources, dock_assignments, dock_events,
                   proposals, decision, pc>>

NextValidate == HardChecksCall

SpecValidate == InitValidate /\ [][NextValidate]_vars

Validated == call.op = "hard_checks" /\ call.done

\* the calendar slots that share an instant with the proposal's span
SlotsOverSpan ==
    {c \in dock_resources :
        ShareInstant(c.slot_start_utc, c.slot_end_utc, call.p.start_utc, call.p.end_utc)}
Staffed(c) == c.crews >= 1 /\ c.forklifts >= 1
\* every minute of [start, end) lies in a staffed slot
StaffedThroughout ==
    \A t \in call.p.start_utc..(call.p.end_utc - 1) :
        \E c \in dock_resources :
            c.slot_start_utc <= t /\ t < c.slot_end_utc /\ Staffed(c)

\* C14: when hard_checks reaches the resource check, it passes only if the
\* calendar covers all of [start, end) with crews >= 1 and forklifts >= 1;
\* it answers no_resource_calendar when no slot covers any part of the span
\* and insufficient_resources when a slot with crews or forklifts 0 covers
\* any part of it, also a part only.
C14_ResourceCheck ==
    (Validated /\ call.why \notin {"inactive_or_missing_door", "double_booking"}) =>
        /\ call.ok => StaffedThroughout
        /\ SlotsOverSpan = {} => call.why = "no_resource_calendar"
        /\ (\E c \in SlotsOverSpan : ~Staffed(c)) => call.why = "insufficient_resources"

\* an assignment of the table that is scheduled or in progress on the
\* proposal's door and shares an instant with the proposal
Clash ==
    \E i \in 1..Len(dock_assignments) :
        /\ dock_assignments[i].door_id = call.p.door_id
        /\ ActiveStatus(dock_assignments[i])
        /\ ShareInstant(dock_assignments[i].start_utc, dock_assignments[i].end_utc,
                        call.p.start_utc, call.p.end_utc)

\* C15: for a proposal on an active door hard_checks reports double_booking
\* exactly when a scheduled or in_progress assignment on the door shares an
\* instant with the proposal's half-open interval; an assignment that only
\* touches it (ends at its start or starts at its end) does not count.
C15_TouchingIsNoOverlap ==
    (Validated /\ call.why # "inactive_or_missing_door") =>
        ((call.why = "double_booking") <=> Clash)

\* a proposal that starts where a scheduled assignment on its door ends, and
\* ends where another starts, passed the overlap check
C15_Witness ==
    /\ Validated
    /\ call.why \notin {"inactive_or_missing_door", "double_booking"}
    /\ \E i, j \in 1..Len(dock_assignments) :
          /\ dock_assignments[i].door_id = call.p.door_id
          /\ dock_assignments[j].door_id = call.p.door_id
          /\ ActiveStatus(dock_assignments[i]) /\ ActiveStatus(dock_assignments[j])
          /\ dock_assignments[i].end_utc = call.p.start_utc
          /\ dock_assignments[j].start_utc = call.p.end_utc

\* the proposal's door is in dock_doors with is_active = 1
DoorInService == call.p.door_id \in DOMAIN dock_doors /\ dock_doors[call.p.door_id] = 1

\* C24: hard_checks checks the door, then the overlap, then the resources
\* and answers with the first failure: inactive_or_missing_door for a
\* missing or inactive door whatever else is wrong, double_booking for an
\* overlap on an active door whatever the calendar holds; and it writes to
\* no table.
C24_FirstFailureWins ==
    /\ [](Validated =>
            /\ ~DoorInService => call.why = "inactive_or_missing_door"
            /\ (DoorInService /\ Clash) => call.why = "double_booking")
    /\ [][call.op = "hard_checks" =>
            UNCHANGED <<dock_doors, dock_assignments, dock_resources, dock_events>>]_vars

\* a proposal on an inactive door that also overlaps a scheduled assignment
\* there, with no resource calendar, was answered
C24_Witness ==
    /\ Validated
    /\ call.p.door_id \in DOMAIN dock_doors /\ dock_doors[call.p.door_id] = 0
    /\ Clash
    /\ dock_resources = {}
    /\ call.why = "inactive_or_missing_door"

----------------------------------------------------------------------------
(* optimize_batch_and_commit followed statement by statement, for a call
   that may be abandoned or fail before it returns.  dock_assignments and
   dock_events hold what is committed; call.pending holds the rows the
   call's connection has inserted and not yet committed, which are dropped
   when the connection is closed without a commit. *)

\* the schedule the call finds: empty, or one assignment of an earlier call
BatchTables == SeedTables(1)

InitBatch ==
    /\ now = 0
    /\ dock_doors = AllActive
    /\ dock_resources \in Calendars
    /\ dock_assignments \in BatchTables
    /\ dock_events = << >>
    /\ proposals = {}
    /\ decision = NoDecision
    /\ \E requests \in Batches :
          call = [op |-> "optimize_batch_and_commit", requests |-> requests,
                  at |-> "solve_batch", sol |-> << >>, i |-> 1,
                  pending |-> << >>, accepted |-> << >>,
                  before |-> [assignments |-> dock_assignments,
                              events |-> << >>]]
    /\ pc = << >>

InBatch(at) == call.op = "optimize_batch_and_commit" /\ call.at = at
BatchProposal ==
    MakeProposal(call.requests[call.i].job_type, call.requests[call.i].id,
                 call.sol[call.i][1], call.requests[call.i].earliest)
BatchUnchanged ==
    UNCHANGED <<now, dock_doors, dock_resources, proposals, pc>>

\* sol = solve_batch(requests, doors, time_ref)
BatchSolve ==
    /\ InBatch("solve_batch")
    /\ \E s \in SolveBatchAt0[call.requests, ActiveDoors(dock_doors)] :
          call' = [call EXCEPT !.sol = s.out, !.at = "loop"]
    /\ UNCHANGED <<dock_assignments, dock_events, decision>>
    /\ BatchUnchanged

\* for req in requests: s = sol.get(req["id"]); if not s: continue;
\* p = Proposal(...); ok, _ = hard_checks(conn, p)
BatchLoop ==
    /\ InBatch("loop")
    /\ call' =
          IF call.i > Len(call.requests) THEN [call EXCEPT !.at = "commit"]
          ELSE IF call.sol[call.i] = None THEN [call EXCEPT !.i = @ + 1]
          ELSE IF hard_checks(dock_doors, dock_assignments \o call.pending,
                              dock_resources, BatchProposal)[1]
          THEN [call EXCEPT !.at = "insert"]
          ELSE [call EXCEPT !.i = @ + 1]
    /\ UNCHANGED <<dock_assignments, dock_events, decision>>
    /\ BatchUnchanged

\* c.execute("INSERT OR REPLACE INTO dock_assignments ...")
BatchInsert ==
    /\ InBatch("insert")
    /\ call' = [call EXCEPT !.pending = Append(@, AssignmentRow(BatchProposal)),
                            !.at = "_log_event"]
    /\ UNCHANGED <<dock_assignments, dock_events, decision>>
    /\ BatchUnchanged

\* _log_event(...): INSERT INTO dock_events and conn.commit(); then
\* accepted.append(p)
BatchLogEvent ==
    /\ InBatch("_log_event")
    /\ dock_assignments' = dock_assignments \o call.pending
    /\ dock_events' = Append(dock_events,
                             EventRow(BatchProposal, "assigned", "solver_choice"))
    /\ call' = [call EXCEPT !.pending = << >>,
                            !.accepted = Append(@, BatchProposal),
                            !.i = @ + 1, !.at = "loop"]
    /\ UNCHANGED decision
    /\ BatchUnchanged

\* conn.commit(); conn.close(); return Decision(...)
BatchCommit ==
    /\ InBatch("commit")
    /\ dock_assignments' = dock_assignments \o call.pending
    /\ decision' = [accepted_proposals |-> call.accepted,
                    conf_sum |-> SolverConfSum(call.accepted),
                    why |-> "solver_commit"]
    /\ call' = [call EXCEPT !.pending = << >>, !.at = "done"]
    /\ UNCHANGED dock_events
    /\ BatchUnchanged

\* the call is abandoned or raises before it returns: the connection goes
\* away without another commit
BatchAbandon ==
    /\ call.op = "optimize_batch_and_commit"
    /\ call.at \notin {"done", "abandoned"}
    /\ call' = [call EXCEPT !.pending = << >>, !.at = "abandoned"]
    /\ UNCHANGED <<dock_assignments, dock_events, decision>>
    /\ BatchUnchanged

NextBatch ==
    \/ BatchSolve
    \/ BatchLoop
    \/ BatchInsert
    \/ BatchLogEvent
    \/ BatchCommit
    \/ BatchAbandon

SpecBatch == InitBatch /\ [][NextBatch]_vars

\* C18: when a call of optimize_batch_and_commit is abandoned or fails
\* before its final commit, the persisted assignments and events are
\* exactly those that existed before the call.
C18_NothingDurableBeforeFinalCommit ==
    InBatch("abandoned") =>
        /\ dock_assignments = call.before.assignments
        /\ dock_events = call.before.events

\* the Proposal the loop builds for request number i of the batch
BatchProposalOf(i) ==
    MakeProposal(call.requests[i].job_type, call.requests[i].id,
                 call.sol[i][1], call.requests[i].earliest)

----------------------------------------------------------------------------
(* solver.Solve(model) under its time limit.  The search keeps the best
   valuation found so far (the incumbent); it ends when it has proved the
   incumbent optimal or when the wall clock reaches
   solver.parameters.max_time_in_seconds, counted here in ticks. *)

TimeBudget == 2

\* the time limit is reached
BudgetSpent_Never(elapsed) == FALSE
BudgetSpent(elapsed) == elapsed >= TimeBudget

\* the feasible valuations of each batch on all doors at time_ref 0,
\* computed once
FeasibleAt0 ==
    [requests \in Batches |-> FeasibleSet(requests, ActiveDoors(AllActive), 0)]

InitSearch ==
    /\ now = 0
    /\ dock_doors = AllActive
    /\ dock_resources = FullCalendar
    /\ dock_assignments = << >>
    /\ dock_events = << >>
    /\ proposals = {}
    /\ decision = NoDecision
    /\ \E requests \in Batches :
          call = [op |-> "solver.Solve", requests |-> requests, elapsed |-> 0,
                  incumbent |-> None, at |-> "searching", result |-> NotRun]
    /\ pc = << >>

Searching == call.op = "solver.Solve" /\ call.at = "searching"
SearchUnchanged ==
    UNCHANGED <<now, dock_doors, dock_resources, dock_assignments, dock_events,
                proposals, decision, pc>>

\* the search finds a first solution, or one with a smaller objective
SearchImprove ==
    /\ Searching
    /\ ~BudgetSpent(call.elapsed)
    /\ \E x \in FeasibleAt0[call.requests] :
          /\ IF call.incumbent = None THEN TRUE
             ELSE Objective(x, call.requests, now)
                      < Objective(call.incumbent[1], call.requests, now)
          /\ call' = [call EXCEPT !.incumbent = Some(x)]
    /\ SearchUnchanged

\* the search space is exhausted: the incumbent is optimal; res = OPTIMAL
SearchProveOptimal ==
    /\ Searching
    /\ ~BudgetSpent(call.elapsed)
    /\ call.incumbent # None
    /\ call.incumbent[1] \in OptimalSet(FeasibleAt0[call.requests], call.requests, now)
    /\ call' = [call EXCEPT !.at = "returned",
                  !.result = [res |-> "OPTIMAL",
                              out |-> Extract(call.incumbent[1], call.requests,
                                              ActiveDoors(dock_doors), now)]]
    /\ SearchUnchanged

\* the wall clock advances
ClockTick ==
    /\ Searching
    /\ call.elapsed < TimeBudget
    /\ call' = [call EXCEPT !.elapsed = @ + 1]
    /\ SearchUnchanged

\* the time limit stops the search: res = FEASIBLE with the incumbent, or
\* UNKNOWN without one, and then out stays empty
SearchTimeUp ==
    /\ Searching
    /\ BudgetSpent(call.elapsed)
    /\ call' = [call EXCEPT !.at = "returned",
                  !.result =
                      IF call.incumbent = None
                      THEN [res |-> "UNKNOWN",
                            out |-> [i \in 1..Len(call.requests) |-> None]]
                      ELSE [res |-> "FEASIBLE",
                            out |-> Extract(call.incumbent[1], call.requests,
                                            ActiveDoors(dock_doors), now)]]
    /\ SearchUnchanged

NextSearch ==
    \/ SearchImprove
    \/ SearchProveOptimal
    \/ ClockTick
    \/ SearchTimeUp

SpecSearch == InitSearch /\ [][NextSearch]_vars

\* the clock keeps advancing and the solver honours its time limit
FairSearch == SpecSearch /\ WF_vars(ClockTick) /\ WF_vars(SearchTimeUp)

SearchReturned == call.op = "solver.Solve" /\ call.at = "returned"

\* what solve_batch returns is the best valuation the search found: an
\* optimal one, or the incumbent when the time ran out, or nothing assigned
\* when there was no incumbent; in each case a result, with every job
\* assigned or left out
NormalResult ==
    /\ call.result \in solve_batch(call.requests, ActiveDoors(dock_doors), now)
    /\ IF call.incumbent = None
       THEN /\ call.result.res = "UNKNOWN"
            /\ \A i \in 1..Len(call.requests) : call.result.out[i] = None
       ELSE /\ call.result.out = Extract(call.incumbent[1], call.requests,
                                         ActiveDoors(dock_doors), now)
            /\ \/ call.result.res = "FEASIBLE"
               \/ /\ call.result.res = "OPTIMAL"
                  /\ call.incumbent[1]
                        \in OptimalSet(FeasibleAt0[call.requests], call.requests, now)

\* C19: solve_batch always terminates, and what it returns is the best
\* incumbent found: optimal when the search completed, otherwise the best
\* feasible solution, with jobs possibly unassigned; running out of budget
\* gives a result and no error.
C19_ReturnsWithinBudget ==
    /\ <>SearchReturned
    /\ [](SearchReturned => NormalResult)

\* the time ran out on an incumbent that is not optimal and leaves a job
\* unassigned
C19_Witness ==
    /\ SearchReturned
    /\ call.result.res = "FEASIBLE"
    /\ call.elapsed = TimeBudget
    /\ call.incumbent[1]
          \notin OptimalSet(FeasibleAt0[call.requests], call.requests, now)
    /\ \E i \in 1..Len(call.requests) : call.result.out[i] = None

----------------------------------------------------------------------------
(* decide_and_commit as a function of the tables and the batch *)

\* proposals as the greedy allocator builds them: a door, ten minutes from
\* now or from five minutes later, with no cost, with a cost the scorer
\* still accepts, or with a cost and lateness it turns down
DecideCosts == {<<0, 0>>, <<60, 10>>, <<60, 30>>}
DecideProposals ==
    {MakeProposal("inbound", "T-001",
                  [door_id |-> d, start |-> st, end |-> st + 10,
                   local_cost |-> cl[1], lateness |-> cl[2]], st) :
        d \in DoorSet, st \in {0, 5}, cl \in DecideCosts}

\* batches of one, two or three different proposals
DecideBatches ==
    {<<p>> : p \in DecideProposals}
        \cup {b \in DecideProposals \X DecideProposals : b[1] # b[2]}
        \cup {b \in DecideProposals \X DecideProposals \X DecideProposals :
                  b[1] # b[2] /\ b[1] # b[3] /\ b[2] # b[3]}

\* the table before the call: empty, or one row of an earlier call
DecideTables == {t \in SeedTables(MaxRows) : Len(t) <= 1}

InitDecide ==
    /\ now = 0
    /\ dock_doors \in DoorTables
    /\ dock_resources = FullCalendar
    /\ dock_assignments \in DecideTables
    /\ dock_events = << >>
    /\ proposals = {}
    /\ decision = NoDecision
    /\ \E ps \in DecideBatches :
          call = [op |-> "decide_and_commit", ps |-> ps, done |-> FALSE,
                  before |-> << >>]
    /\ pc = << >>

\* decision = decide_and_commit(proposals)
DecideCall ==
    /\ call.op = "decide_and_commit"
    /\ ~call.done
    /\ LET r == decide_and_commit(dock_doors, dock_resources,
                                  dock_assignments, dock_events, call.ps)
       IN /\ dock_assignments' = r.assignments
          /\ dock_events' = r.events
          /\ decision' = r.decision
    /\ call' = [call EXCEPT !.done = TRUE, !.before = dock_assignments]
    /\ UNCHANGED <<now, dock_doors, dock_resources, proposals, pc>>

NextDecide == DecideCall

SpecDecide == InitDecide /\ [][NextDecide]_vars

Decided == call.op = "decide_and_commit" /\ call.done

\* proposal k of the batch is among the accepted proposals of the Decision
IsAccepted(k) == call.ps[k] \in RangeOf(decision.accepted_proposals)

\* the table proposal k+1 is validated against: the table before the call
\* and the rows of the proposals accepted among the first k
TableAfter(k) ==
    LET Pre[n \in 0..Len(call.ps)] ==
            IF n = 0 THEN call.before
            ELSE IF IsAccepted(n) THEN Append(Pre[n-1], AssignmentRow(call.ps[n]))
            ELSE Pre[n-1]
    IN Pre[k]

\* hard_checks for proposal k on the table it meets
CheckAt(k) == hard_checks(dock_doors, TableAfter(k - 1), dock_resources, call.ps[k])

\* C21: decide_and_commit takes the proposals in input order, each against
\* the table with the rows accepted before it in this call and in earlier
\* ones: a proposal is accepted exactly when it is valid on that table and
\* confident enough, also after a rejected one; of two proposals that
\* overlap on one active door the later is rejected, as double_booking, once
\* the earlier is accepted.
C21_InOrderAgainstRunningState ==
    Decided =>
        /\ \A k \in 1..Len(call.ps) :
              IsAccepted(k) <=> Accepts(CheckAt(k)[1], call.ps[k])
        /\ \A j, k \in 1..Len(call.ps) :
              (/\ j < k
               /\ IsAccepted(j)
               /\ call.ps[j].door_id = call.ps[k].door_id
               /\ ShareInstant(call.ps[j].start_utc, call.ps[j].end_utc,
                               call.ps[k].start_utc, call.ps[k].end_utc))
                  => ~IsAccepted(k) /\ CheckAt(k)[2] = "double_booking"
        /\ dock_assignments = TableAfter(Len(call.ps))

\* the first proposal was accepted, the second overlaps it on its door and
\* was rejected, and the third was accepted after it
C21_Witness ==
    /\ Decided
    /\ Len(call.ps) = 3
    /\ IsAccepted(1) /\ ~IsAccepted(2) /\ IsAccepted(3)
    /\ call.ps[1].door_id = call.ps[2].door_id
    /\ ShareInstant(call.ps[1].start_utc, call.ps[1].end_utc,
                    call.ps[2].start_utc, call.ps[2].end_utc)

\* the number of proposals rejected among the first k
RejectedBefore(k) == Cardinality({j \in 1..(k - 1) : ~IsAccepted(j)})

\* C22: every proposal is scored with the running penalty, 0.1 (60/600) for
\* each proposal rejected before it in the batch, and is accepted exactly
\* when it is valid and that confidence reaches 0.6.
C22_ScoredWithRunningPenalty ==
    Decided =>
        \A k \in 1..Len(call.ps) :
            IsAccepted(k) <=>
                /\ CheckAt(k)[1]
                /\ score_confidence(CheckAt(k)[1], call.ps[k].lateness_min,
                                    call.ps[k].local_cost, 60 * RejectedBefore(k)) >= 360

----------------------------------------------------------------------------
(* orchestrator.py: the allocate operations.  _allocate_inbound and
   _allocate_outbound build the request, ask for a proposal, hand it to
   decide_and_commit and build the response dict. *)

AllocateInboundRequests == InboundRequests
AllocateOutboundRequests ==
    [load_id : {"L-001"}, cutoff_utc : {10, -25}, load_min : {10},
     priority : Priorities, window_min : {10}]

NoResponse == [success |-> FALSE, assignment |-> None, confidence |-> 0]

InitAllocate ==
    /\ now = 0
    /\ dock_doors \in DoorTables
    /\ dock_resources \in Calendars
    /\ dock_assignments \in SeedTables(1)
    /\ dock_events = << >>
    /\ proposals = {}
    /\ decision = NoDecision
    /\ call = [op |-> "allocate", done |-> FALSE, proposal |-> None,
               response |-> NoResponse]
    /\ pc = << >>

\* the rest of both operations once the proposal is there:
\*   if not proposal: return {"success": False, ...}
\*   decision = decide_and_commit([proposal])
\*   return {"success": True, "assignment": {...}, ...}
Allocate(proposal) ==
    IF proposal = None
    THEN /\ call' = [call EXCEPT !.done = TRUE, !.response = NoResponse]
         /\ UNCHANGED <<dock_assignments, dock_events, decision>>
    ELSE LET r == decide_and_commit(dock_doors, dock_resources, dock_assignments,
                                    dock_events, << proposal[1] >>)
         IN /\ dock_assignments' = r.assignments
            /\ dock_events' = r.events
            /\ decision' = r.decision
            /\ call' = [call EXCEPT
                          !.done = TRUE,
                          !.proposal = proposal,
                          !.response =
                             [success |-> TRUE,
                              assignment |-> Some([door_id |-> proposal[1].door_id,
                                                   start_utc |-> proposal[1].start_utc,
                                                   end_utc |-> proposal[1].end_utc,
                                                   local_cost |-> proposal[1].local_cost,
                                                   lateness_min |-> proposal[1].lateness_min]),
                              confidence |-> r.decision.conf_sum]]

AllocateInbound ==
    /\ call.op = "allocate" /\ ~call.done
    /\ \E req \in AllocateInboundRequests :
          Allocate(propose_inbound(dock_doors, dock_assignments, now, req))
    /\ UNCHANGED <<now, dock_doors, dock_resources, proposals, pc>>

AllocateOutbound ==
    /\ call.op = "allocate" /\ ~call.done
    /\ \E req \in AllocateOutboundRequests :
          Allocate(propose_outbound(dock_doors, dock_assignments, now, req))
    /\ UNCHANGED <<now, dock_doors, dock_resources, proposals, pc>>

NextAllocate == AllocateInbound \/ AllocateOutbound

SpecAllocate == InitAllocate /\ [][NextAllocate]_vars

\* the assignment of the response is a scheduled row of dock_assignments
\* for the job of the proposal
ResponsePersisted ==
    \E i \in 1..Len(dock_assignments) :
        /\ dock_assignments[i].ref_id = call.proposal[1].ref_id
        /\ dock_assignments[i].status = "scheduled"
        /\ dock_assignments[i].door_id = call.response.assignment[1].door_id
        /\ dock_assignments[i].start_utc = call.response.assignment[1].start_utc
        /\ dock_assignments[i].end_utc = call.response.assignment[1].end_utc

\* C30: when an allocate operation of the orchestrator reports success with
\* an assignment (door, start, end), the proposal was accepted by
\* decide_and_commit and a scheduled assignment row for it exists.
C30_SuccessMeansPersisted ==
    (call.op = "allocate" /\ call.done /\ call.response.success) =>
        /\ decision.accepted_proposals = << call.proposal[1] >>
        /\ ResponsePersisted

====
